---- MODULE Spec2Model ----
(***************************************************************************)
(* Model of the cloudglue client facade (cloudglue/client): the top-level  *)
(* client, the resource facades with their error handlers, and the polling *)
(* loops of Files.upload, Collections.add_video / add_youtube_video,       *)
(* Extract.run and Describe.run.                                           *)
(*                                                                         *)
(* One facade call is in progress at a time (the library is synchronous);  *)
(* pc is the position inside the call.  The remote service is the          *)
(* environment: every transport call nondeterministically succeeds with an *)
(* object or raises.                                                       *)
(***************************************************************************)
EXTENDS Integers, Sequences, FiniteSets, TLC

VARIABLES
    client,        \* "unconstructed" | "ready": state of the CloudGlue object
    pc,            \* position inside the current facade call
    op,            \* the facade operation being executed
    args,          \* its arguments
    elapsed,       \* local `elapsed` of the polling loop
    response,      \* local `response` / `job`: what the creation returned
    status,        \* local `status`: what the last status fetch returned
    result,        \* what the caller got: nothing yet, a value, an exception
    gen,           \* state of the generator returned by Responses.create(stream=True)
    calls,         \* number of transport calls made by the current call
    fetches,       \* number of status fetches (self.get / self.get_video)
    sleeps,        \* number of completed time.sleep calls
    transportExc,  \* history: the exception the transport raised in this call
    firstTerm,     \* history: index and object of the first terminal fetch
    failedAt,      \* history: fetches/sleeps counted when a status fetch failed
    stream,        \* the bytes the raw response delivers to _iter_sse_events
    pos,           \* how many of them raw_response.stream has handed out
    buffer,        \* local `buffer` of _iter_sse_events
    current_event, \* local `current_event`
    current_data_lines, \* local `current_data_lines`
    yielded,       \* the records the generator has yielded, in order
    loaded,        \* history: the texts json.loads was called with
    at,            \* concurrent callers: each caller's position in Files.upload
    callArgs,      \* each caller's poll_interval and timeout
    locals,        \* each frame's `elapsed` and `status`
    returned,      \* what each caller's call returned or raised
    seen,          \* history: the fetch results each caller was served
    interleaved,   \* history: a caller stepped while another was inside its loop
    api_key,       \* self.api_key of the CloudGlue object
    given,         \* history: the api_key argument and the environment value the
                   \* constructor was last called with
    scope,         \* the `with CloudGlue(...)` statement: where it is, what its body
                   \* raised, what left it
    model_file,    \* cloudglue/sdk/models/add_collection_file.py as the script sees it
    request        \* the last AddCollectionFile(...) construction and its outcome

facadeVars == <<client, pc, op, args, elapsed, response, status, result, gen,
                calls, fetches, sleeps, transportExc, firstTerm, failedAt>>

sseVars == <<stream, pos, buffer, current_event, current_data_lines, yielded, loaded>>

concVars == <<at, callArgs, locals, returned, seen, interleaved>>

lifeVars == <<api_key, given, scope>>

oneofVars == <<model_file, request>>

vars == <<facadeVars, sseVars, concVars, lifeVars, oneofVars>>

----------------------------------------------------------------------------
(* Bounds of the model *)

MaxTimeout == 6
MaxInterval == 3

\* The counters of the model saturate here.  With poll_interval >= 1 a call
\* makes at most MaxTimeout fetches and MaxTimeout + 1 transport calls, so
\* only the loop with poll_interval = 0 ever saturates them.
MaxCount == MaxTimeout + 2

Inc(n) == IF n < MaxCount THEN n + 1 ELSE n

Timeouts == 0..MaxTimeout
PollIntervals == 0..MaxInterval

----------------------------------------------------------------------------
(* Optional values (Python None) *)

None == <<>>
Some(x) == <<x>>

----------------------------------------------------------------------------
(* Exceptions *)

NoExc ==
    [type |-> "none", message |-> "", status_code |-> None, data |-> None,
     headers |-> None, reason |-> None]

\* An exception that carries nothing but its message.
PyException(t, msg) ==
    [type |-> t, message |-> msg, status_code |-> None, data |-> None,
     headers |-> None, reason |-> None]

\* cloudglue.sdk.rest.ApiException as the transport raises it for a non-2xx
\* response: status, reason, data and headers of the HTTP response.
ApiExceptions ==
    { [type |-> "ApiException", message |-> "(404)\nReason: Not Found",
       status_code |-> Some(404), data |-> Some("data404"),
       headers |-> Some("headers404"), reason |-> Some("Not Found")],
      [type |-> "ApiException", message |-> "(500)\nReason: Internal Server Error",
       status_code |-> Some(500), data |-> Some("data500"),
       headers |-> Some("headers500"), reason |-> Some("Internal Server Error")] }

\* Anything else the transport can raise (connection failure, a response that
\* does not deserialize).
OtherTransportExceptions == { PyException("Exception", "connection failed") }

TransportExceptions == ApiExceptions \cup OtherTransportExceptions

CloudGlueError(message, status_code, data, headers, reason) ==
    [type |-> "CloudGlueError", message |-> message, status_code |-> status_code,
     data |-> data, headers |-> headers, reason |-> reason]

\* The pair of except clauses that ends every facade method:
\*     except ApiException as e: raise CloudGlueError(str(e), e.status, ...)
\*     except Exception as e:    raise CloudGlueError(str(e))
\* A CloudGlueError raised by a nested facade call is an Exception and not an
\* ApiException, so it takes the second clause.
FacadeHandlerNoStatus(e) ==
    CloudGlueError(e.message, None, None, None, None)

FacadeHandler(e) ==
    IF e.type = "ApiException"
    THEN CloudGlueError(e.message, e.status_code, e.data, e.headers, e.reason)
    ELSE CloudGlueError(e.message, None, None, None, None)

\* Responses.create puts `except CloudGlueError: raise` before the two clauses.
ResponsesCreateHandler(e) ==
    IF e.type = "CloudGlueError" THEN e ELSE FacadeHandler(e)

----------------------------------------------------------------------------
(* Objects returned by the service *)

Statuses ==
    {"pending", "processing", "ready", "completed", "failed", "not_applicable"}

\* An object of the service: its status field and, as its identity, the
\* number of the transport call that produced it.
Obj(s, n) == [status |-> s, seq |-> n]
NoObj == Obj("none", 0)

----------------------------------------------------------------------------
(* The facade operations *)

\* Creations that poll only when the caller passes wait_until_finish=True.
PollingCreations ==
    {"Files.upload", "Collections.add_video", "Collections.add_youtube_video"}

\* Creations that always poll.
JobRuns == {"Extract.run", "Describe.run"}

PollingOps == PollingCreations \cup JobRuns

\* Operations that build a request, make one transport call and return what
\* it returned.
RoundTrips ==
    {"Completions.create",
     "Collections.create", "Collections.list", "Collections.get",
     "Collections.delete", "Collections.get_video", "Collections.list_videos",
     "Collections.remove_video", "Collections.get_video_description",
     "Collections.get_video_entities",
     "Extract.create", "Extract.get", "Describe.create", "Describe.get",
     "Files.list", "Files.get", "Files.delete",
     "Share.create", "Share.get", "Share.list", "Share.update", "Share.delete",
     "Responses.get", "Responses.list", "Responses.delete", "Responses.cancel"}

NoArgs ==
    [wait_until_finish |-> FALSE, poll_interval |-> 0, timeout |-> 0,
     prompt |-> FALSE, schema |-> FALSE, file_exists |-> TRUE, stream |-> FALSE]

\* terminal_states of the resource polling loops and the literal list of the
\* job polling loops.
TerminalStatesNoNotApplicable(o) ==
    IF o \in PollingCreations
    THEN {"ready", "completed", "failed"}
    ELSE {"completed", "failed"}

TerminalStatesSameForJobs(o) ==
    {"ready", "completed", "failed", "not_applicable"}

TerminalStates(o) ==
    IF o \in PollingCreations
    THEN {"ready", "completed", "failed", "not_applicable"}
    ELSE {"completed", "failed"}

\* `while elapsed < timeout`
LoopConditionInclusive(e, t) == e <= t

LoopCondition(e, t) == e < t

\* The message of the TimeoutError raised after the loop.
TimeoutMessage(o) ==
    CASE o = "Files.upload" -> "File processing did not complete within timeout seconds"
      [] o \in {"Collections.add_video", "Collections.add_youtube_video"} ->
            "Video processing did not complete within timeout seconds"
      [] o = "Extract.run" -> "Extraction job did not complete within timeout seconds"
      [] OTHER -> "Describe job did not complete within timeout seconds"

TimeoutError(o) == PyException("TimeoutError", TimeoutMessage(o))

\* `if not prompt and not schema: raise ValueError(...)` of Extract.create
ValidationMessage == "Either prompt or schema must be provided"

MissingPromptAndSchemaIgnored(a) == FALSE

MissingPromptAndSchema(a) == ~a.prompt /\ ~a.schema

\* `if not wait_until_finish: return response`
ReturnsImmediatelyNever(a) == FALSE

ReturnsImmediately(a) == ~a.wait_until_finish

\* The statuses the specification calls terminal for each kind of polling;
\* used only to record firstTerm.
SpecTerminal(o) ==
    IF o \in PollingCreations
    THEN {"ready", "completed", "failed", "not_applicable"}
    ELSE {"completed", "failed"}

----------------------------------------------------------------------------
(* Initial state: no client object yet *)

NoResult == [kind |-> "none", value |-> NoObj, exc |-> NoExc]
Returned(v) == [kind |-> "return", value |-> v, exc |-> NoExc]
Raised(e) == [kind |-> "raise", value |-> NoObj, exc |-> e]
NoSnapshot == [set |-> FALSE, fetches |-> 0, sleeps |-> 0]
NoFirstTerm == [n |-> 0, obj |-> NoObj]

\* The callers of the concurrent scenario, and their state while none of
\* them is inside a call.
Callers == {"a", "b"}

NoLocals == [elapsed |-> 0, status |-> NoObj]

NoConcurrentCalls ==
    /\ at = [c \in Callers |-> "idle"]
    /\ callArgs = [c \in Callers |-> NoArgs]
    /\ locals = [c \in Callers |-> NoLocals]
    /\ returned = [c \in Callers |-> NoResult]
    /\ seen = [c \in Callers |-> <<>>]
    /\ interleaved = FALSE

\* The api_key argument and the CLOUDGLUE_API_KEY variable: absent, empty or
\* a key.
ArgumentKeys == {None, Some(""), Some("sk-arg")}
EnvironmentKeys == {None, Some(""), Some("sk-env")}

\* bool(x) of an Optional[str]
Truthy(x) == x # None /\ x # Some("")

\* an `or` that prefers its second operand
PyOrSecond(a, b) == IF Truthy(b) THEN b ELSE a

\* `a or b`
PyOr(a, b) == IF Truthy(a) THEN a ELSE b

\* No `with` statement has been entered.
NoScope == [at |-> "outside", exc |-> NoExc, left |-> NoResult, last |-> "none"]

NotConstructed == [called |-> FALSE, key |-> None, env |-> None]
Constructed(key, env) == [called |-> TRUE, key |-> key, env |-> env]

\* add_collection_file.py as shipped, after the post-processing script, and
\* no request built yet.
ShippedModelFile ==
    [exists |-> TRUE, file_id_optional |-> TRUE, url_optional |-> TRUE,
     imports_validator |-> TRUE, has_validator |-> TRUE]

NoRequest == [file_id |-> None, url |-> None, validator |-> FALSE, outcome |-> "none"]

NoRequestBuilt ==
    /\ model_file = ShippedModelFile
    /\ request = NoRequest

Init ==
    /\ NoConcurrentCalls
    /\ NoRequestBuilt
    /\ api_key = None
    /\ given = NotConstructed
    /\ scope = NoScope
    /\ client = "unconstructed"
    /\ pc = "idle"
    /\ op = "none"
    /\ args = NoArgs
    /\ elapsed = 0
    /\ response = NoObj
    /\ status = NoObj
    /\ result = NoResult
    /\ gen = "none"
    /\ calls = 0
    /\ fetches = 0
    /\ sleeps = 0
    /\ transportExc = NoExc
    /\ firstTerm = NoFirstTerm
    /\ failedAt = NoSnapshot
    /\ stream = <<>>
    /\ pos = 0
    /\ buffer = <<>>
    /\ current_event = None
    /\ current_data_lines = <<>>
    /\ yielded = <<>>
    /\ loaded = {}

----------------------------------------------------------------------------
(* CloudGlue.__init__ *)

\* key: the api_key argument; env: os.environ.get("CLOUDGLUE_API_KEY").
\* `self.api_key = api_key or os.environ.get(...)`, then the ValueError or the
\* configuration, the transport client and the facades.
Construct(key, env) ==
    /\ client = "unconstructed"
    /\ pc = "idle"
    /\ scope.at = "outside"
    /\ api_key' = PyOr(key, env)
    /\ given' = Constructed(key, env)
    /\ IF ~Truthy(api_key')
       THEN /\ result' = Raised(PyException("ValueError", "API key must be provided"))
            /\ client' = client
       ELSE /\ result' = NoResult
            /\ client' = "ready"
    /\ UNCHANGED <<pc, op, args, elapsed, response, status, gen, calls, fetches,
                   sleeps, transportExc, firstTerm, failedAt>>
    /\ UNCHANGED <<sseVars, concVars, scope, oneofVars>>

----------------------------------------------------------------------------
(* The caller invokes a facade method *)

Begin(o, a) ==
    /\ client = "ready"
    /\ pc = "idle"
    /\ pc' = "create"
    /\ op' = o
    /\ args' = a
    /\ elapsed' = 0
    /\ response' = NoObj
    /\ status' = NoObj
    /\ result' = NoResult
    /\ gen' = "none"
    /\ calls' = 0
    /\ fetches' = 0
    /\ sleeps' = 0
    /\ transportExc' = NoExc
    /\ firstTerm' = NoFirstTerm
    /\ failedAt' = NoSnapshot
    /\ UNCHANGED client
    /\ UNCHANGED <<sseVars, concVars, lifeVars, oneofVars>>

InvokePollingCreation ==
    \E o \in PollingCreations, w \in BOOLEAN, p \in PollIntervals, t \in Timeouts,
       x \in BOOLEAN :
        /\ (o # "Files.upload" => x)
        /\ (~w => p = 0 /\ t = 0)
        /\ Begin(o, [NoArgs EXCEPT !.wait_until_finish = w, !.poll_interval = p,
                                   !.timeout = t, !.file_exists = x])

InvokeJobRun ==
    \E o \in JobRuns, p \in PollIntervals, t \in Timeouts, pr, sc \in BOOLEAN :
        /\ (o = "Describe.run" => ~pr /\ ~sc)
        /\ Begin(o, [NoArgs EXCEPT !.poll_interval = p, !.timeout = t,
                                   !.prompt = pr, !.schema = sc])

InvokeRoundTrip ==
    \E o \in RoundTrips, pr, sc \in BOOLEAN :
        /\ (o # "Extract.create" => ~pr /\ ~sc)
        /\ Begin(o, [NoArgs EXCEPT !.prompt = pr, !.schema = sc])

InvokeResponsesCreate ==
    \E st \in BOOLEAN : Begin("Responses.create", [NoArgs EXCEPT !.stream = st])

----------------------------------------------------------------------------
(* Steps inside a facade call *)

Return(v) ==
    /\ result' = Returned(v)
    /\ pc' = "done"

Raise(e) ==
    /\ result' = Raised(e)
    /\ pc' = "done"

\* Files.upload, Collections.add_video, Collections.add_youtube_video up to the
\* polling loop: the creation is a direct transport call of the method, so an
\* exception of the transport reaches the method's own handler.
CreateResource ==
    /\ pc = "create"
    /\ op \in PollingCreations
    /\ IF op = "Files.upload" /\ ~args.file_exists
       THEN /\ Raise(FacadeHandler(PyException("FileNotFoundError", "File not found")))
            /\ UNCHANGED <<calls, transportExc, response, elapsed>>
       ELSE /\ calls' = Inc(calls)
            /\ \/ \E e \in TransportExceptions :
                    /\ transportExc' = e
                    /\ Raise(FacadeHandler(e))
                    /\ UNCHANGED <<response, elapsed>>
               \/ \E s \in Statuses :
                    /\ response' = Obj(s, calls')
                    /\ IF ReturnsImmediately(args)
                       THEN Return(response')
                       ELSE /\ pc' = "check"
                            /\ result' = result
                    /\ elapsed' = 0
                    /\ UNCHANGED transportExc
    /\ UNCHANGED <<client, op, args, status, gen, fetches, sleeps, firstTerm, failedAt>>
    /\ UNCHANGED <<sseVars, concVars, lifeVars, oneofVars>>

\* Extract.run and Describe.run up to the polling loop: the job is created
\* through the facade's own create method, whose handler runs first; what it
\* raises then passes through the handler of run.
CreateJob ==
    /\ pc = "create"
    /\ op \in JobRuns
    /\ IF op = "Extract.run" /\ MissingPromptAndSchema(args)
       THEN /\ Raise(FacadeHandler(FacadeHandler(PyException("ValueError", ValidationMessage))))
            /\ UNCHANGED <<calls, transportExc, response>>
       ELSE /\ calls' = Inc(calls)
            /\ \/ \E e \in TransportExceptions :
                    /\ transportExc' = e
                    /\ Raise(FacadeHandler(FacadeHandler(e)))
                    /\ UNCHANGED response
               \/ \E s \in Statuses :
                    /\ response' = Obj(s, calls')
                    /\ pc' = "check"
                    /\ result' = result
                    /\ UNCHANGED transportExc
    /\ elapsed' = 0
    /\ UNCHANGED <<client, op, args, status, gen, fetches, sleeps, firstTerm, failedAt>>
    /\ UNCHANGED <<sseVars, concVars, lifeVars, oneofVars>>

\* The methods that make one transport call and return its result, Extract.create
\* with its check of prompt and schema among them.
RoundTrip ==
    /\ pc = "create"
    /\ op \in RoundTrips
    /\ IF op = "Extract.create" /\ MissingPromptAndSchema(args)
       THEN /\ Raise(FacadeHandler(PyException("ValueError", ValidationMessage)))
            /\ UNCHANGED <<calls, transportExc, response>>
       ELSE /\ calls' = Inc(calls)
            /\ \/ \E e \in TransportExceptions :
                    /\ transportExc' = e
                    /\ Raise(FacadeHandler(e))
                    /\ UNCHANGED response
               \/ \E s \in Statuses :
                    /\ response' = Obj(s, calls')
                    /\ Return(response')
                    /\ UNCHANGED transportExc
    /\ UNCHANGED <<client, op, args, elapsed, status, gen, fetches, sleeps,
                   firstTerm, failedAt>>
    /\ UNCHANGED <<sseVars, concVars, lifeVars, oneofVars>>

\* HTTP status of the raw response of create_response_without_preload_content,
\* which does not raise for a non-2xx status.
RawStatuses == {200, 404, 500}

\* The raw response as an object: its HTTP status stands for its identity.
RawResponse(rs) == Obj("raw", rs)

\* The body of a non-200 raw response: bytes that are UTF-8 text, or bytes
\* that `raw_response.read().decode("utf-8")` cannot decode.
ErrorBodies == {"utf-8", "not utf-8"}

\* Responses.create.  stream=True: the raw response is inspected and, with
\* status 200, handed to the generator _iter_sse_events, which has not run a
\* line of its body when create returns.
ResponsesCreate ==
    /\ pc = "create"
    /\ op = "Responses.create"
    /\ calls' = Inc(calls)
    /\ IF args.stream
       THEN \/ \E e \in OtherTransportExceptions :
                 /\ transportExc' = e
                 /\ Raise(ResponsesCreateHandler(e))
                 /\ UNCHANGED <<response, gen>>
            \/ \E rs \in RawStatuses, body \in ErrorBodies :
                 /\ response' = RawResponse(rs)
                 /\ IF rs # 200
                    THEN /\ IF body = "utf-8"
                            THEN Raise(ResponsesCreateHandler(
                                   CloudGlueError("(status)\nReason: reason\nHTTP response body: body",
                                                  Some(rs), None, None, None)))
                            ELSE Raise(ResponsesCreateHandler(
                                   PyException("UnicodeDecodeError", "invalid start byte")))
                         /\ gen' = gen
                    ELSE /\ result' = [kind |-> "generator", value |-> NoObj, exc |-> NoExc]
                         /\ pc' = "done"
                         /\ gen' = "open"
                 /\ UNCHANGED transportExc
       ELSE /\ \/ \E e \in TransportExceptions :
                    /\ transportExc' = e
                    /\ Raise(ResponsesCreateHandler(e))
                    /\ UNCHANGED response
               \/ \E s \in Statuses :
                    /\ response' = Obj(s, calls')
                    /\ Return(response')
                    /\ UNCHANGED transportExc
            /\ gen' = gen
    /\ UNCHANGED <<client, op, args, elapsed, status, fetches, sleeps, firstTerm, failedAt>>
    /\ UNCHANGED <<sseVars, concVars, lifeVars, oneofVars>>

\* The caller iterates the generator: the body of _iter_sse_events runs in the
\* caller's frame, outside every try block of Responses.create.  The stream
\* ends, or reading or decoding a chunk raises.
StreamExceptions ==
    { PyException("ProtocolError", "connection broken"),
      PyException("UnicodeDecodeError", "invalid continuation byte") }

StreamEnds ==
    /\ gen = "open"
    /\ pc = "done"
    /\ gen' = "exhausted"
    /\ UNCHANGED <<client, pc, op, args, elapsed, response, status, result, calls,
                   fetches, sleeps, transportExc, firstTerm, failedAt>>
    /\ UNCHANGED <<sseVars, concVars, lifeVars, oneofVars>>

StreamRaises ==
    /\ gen = "open"
    /\ pc = "done"
    /\ \E e \in StreamExceptions : result' = Raised(e)
    /\ gen' = "raised"
    /\ UNCHANGED <<client, pc, op, args, elapsed, response, status, calls,
                   fetches, sleeps, transportExc, firstTerm, failedAt>>
    /\ UNCHANGED <<sseVars, concVars, lifeVars, oneofVars>>

----------------------------------------------------------------------------
(* The polling loop *)

\* `while elapsed < timeout:` and, when it fails, the `raise TimeoutError(...)`
\* after the loop, which the method's own handler catches.
CheckReturnsLastStatus ==
    /\ pc = "check"
    /\ IF LoopCondition(elapsed, args.timeout)
       THEN /\ pc' = "fetch"
            /\ result' = result
       ELSE Return(status)
    /\ UNCHANGED <<client, op, args, elapsed, response, status, gen, calls, fetches,
                   sleeps, transportExc, firstTerm, failedAt>>
    /\ UNCHANGED <<sseVars, concVars, lifeVars, oneofVars>>

Check ==
    /\ pc = "check"
    /\ IF LoopCondition(elapsed, args.timeout)
       THEN /\ pc' = "fetch"
            /\ result' = result
       ELSE Raise(FacadeHandler(TimeoutError(op)))
    /\ UNCHANGED <<client, op, args, elapsed, response, status, gen, calls, fetches,
                   sleeps, transportExc, firstTerm, failedAt>>
    /\ UNCHANGED <<sseVars, concVars, lifeVars, oneofVars>>

\* `status = self.get(...)` / `self.get_video(...)`: a facade method with its
\* own handler; what it raises then passes through the handler of the poller.
FetchRaisesRetried(e) ==
    /\ pc' = "sleep"
    /\ result' = result

FetchRaises(e) ==
    Raise(FacadeHandler(FacadeHandler(e)))

Fetch ==
    /\ pc = "fetch"
    /\ calls' = Inc(calls)
    /\ fetches' = Inc(fetches)
    /\ \/ \E e \in TransportExceptions :
            /\ transportExc' = e
            /\ failedAt' = [set |-> TRUE, fetches |-> fetches', sleeps |-> sleeps]
            /\ FetchRaises(e)
            /\ UNCHANGED <<status, firstTerm>>
       \/ \E s \in Statuses :
            /\ status' = Obj(s, calls')
            /\ firstTerm' = IF firstTerm.n = 0 /\ s \in SpecTerminal(op)
                            THEN [n |-> fetches', obj |-> status']
                            ELSE firstTerm
            /\ pc' = "inspect"
            /\ UNCHANGED <<result, transportExc, failedAt>>
    /\ UNCHANGED <<client, op, args, elapsed, response, gen, sleeps>>
    /\ UNCHANGED <<sseVars, concVars, lifeVars, oneofVars>>

\* `if status.status in terminal_states: return status`
InspectReturnsResponse ==
    /\ pc = "inspect"
    /\ IF status.status \in TerminalStates(op)
       THEN Return(response)
       ELSE /\ pc' = "sleep"
            /\ result' = result
    /\ UNCHANGED <<client, op, args, elapsed, response, status, gen, calls, fetches,
                   sleeps, transportExc, firstTerm, failedAt>>
    /\ UNCHANGED <<sseVars, concVars, lifeVars, oneofVars>>

\* an inspection that gives up when the next sleep would use up the budget
InspectSkipsLastSleep ==
    /\ pc = "inspect"
    /\ IF status.status \in TerminalStates(op)
       THEN Return(status)
       ELSE IF elapsed + args.poll_interval >= args.timeout
       THEN Raise(FacadeHandler(TimeoutError(op)))
       ELSE /\ pc' = "sleep"
            /\ result' = result
    /\ UNCHANGED <<client, op, args, elapsed, response, status, gen, calls, fetches,
                   sleeps, transportExc, firstTerm, failedAt>>
    /\ UNCHANGED <<sseVars, concVars, lifeVars, oneofVars>>

Inspect ==
    /\ pc = "inspect"
    /\ IF status.status \in TerminalStates(op)
       THEN Return(status)
       ELSE /\ pc' = "sleep"
            /\ result' = result
    /\ UNCHANGED <<client, op, args, elapsed, response, status, gen, calls, fetches,
                   sleeps, transportExc, firstTerm, failedAt>>
    /\ UNCHANGED <<sseVars, concVars, lifeVars, oneofVars>>

\* a sleep that adds the measured duration of the iteration
SleepMeasuresTime ==
    /\ pc = "sleep"
    /\ sleeps' = Inc(sleeps)
    /\ elapsed' = elapsed + args.poll_interval + 1
    /\ pc' = "check"
    /\ UNCHANGED <<client, op, args, response, status, result, gen, calls, fetches,
                   transportExc, firstTerm, failedAt>>
    /\ UNCHANGED <<sseVars, concVars, lifeVars, oneofVars>>

\* `time.sleep(poll_interval); elapsed += poll_interval`
Sleep ==
    /\ pc = "sleep"
    /\ sleeps' = Inc(sleeps)
    /\ elapsed' = elapsed + args.poll_interval
    /\ pc' = "check"
    /\ UNCHANGED <<client, op, args, response, status, result, gen, calls, fetches,
                   transportExc, firstTerm, failedAt>>
    /\ UNCHANGED <<sseVars, concVars, lifeVars, oneofVars>>

----------------------------------------------------------------------------
(* The call is over: its frame is gone and the caller may invoke the next one *)

CallerProceeds ==
    /\ pc = "done"
    /\ gen # "open"
    /\ pc' = "idle"
    /\ op' = "none"
    /\ args' = NoArgs
    /\ elapsed' = 0
    /\ response' = NoObj
    /\ status' = NoObj
    /\ result' = NoResult
    /\ gen' = "none"
    /\ calls' = 0
    /\ fetches' = 0
    /\ sleeps' = 0
    /\ transportExc' = NoExc
    /\ firstTerm' = NoFirstTerm
    /\ failedAt' = NoSnapshot
    /\ UNCHANGED client
    /\ UNCHANGED <<sseVars, concVars, lifeVars, oneofVars>>

----------------------------------------------------------------------------
(* Specification *)

Next ==
    \/ \E k \in ArgumentKeys : Construct(k, None)
    \/ InvokePollingCreation
    \/ InvokeJobRun
    \/ InvokeRoundTrip
    \/ InvokeResponsesCreate
    \/ CreateResource
    \/ CreateJob
    \/ RoundTrip
    \/ ResponsesCreate
    \/ StreamEnds
    \/ StreamRaises
    \/ Check
    \/ Fetch
    \/ Inspect
    \/ Sleep
    \/ CallerProceeds

Spec == Init /\ [][Next]_vars

\* A facade call is ordinary sequential code: once invoked it keeps taking its
\* next step.  Nothing obliges the caller to invoke anything.
Step ==
    CreateResource \/ CreateJob \/ RoundTrip \/ ResponsesCreate
        \/ Check \/ Fetch \/ Inspect \/ Sleep

FairSpec == Spec /\ WF_vars(Step)

----------------------------------------------------------------------------
(* Properties *)

Running == pc \in {"create", "check", "fetch", "inspect", "sleep"}

\* The call entered its polling loop.
Polled ==
    /\ op \in PollingOps
    /\ response # NoObj
    /\ (op \in PollingCreations => args.wait_until_finish)

\* The polling call is over and no fetch of it failed or was terminal.
BudgetExhausted ==
    /\ Polled
    /\ pc = "done"
    /\ firstTerm.n = 0
    /\ ~failedAt.set

Ceil(t, p) == (t + p - 1) \div p

\* C1: when the N-th status fetch of a polling call is the first to return a
\* terminal status, the call makes exactly N status fetches and returns the
\* object of that N-th fetch, unmodified.
C1_ReturnsFirstTerminalFetch ==
    (op \in PollingOps /\ firstTerm.n > 0) =>
        /\ fetches = firstTerm.n
        /\ pc \in {"inspect", "done"}
        /\ (pc = "done" => result = Returned(firstTerm.obj))

C1_Witness ==
    /\ pc = "done"
    /\ op = "Files.upload"
    /\ firstTerm.n = 3
    /\ fetches = 3
    /\ result = Returned(firstTerm.obj)
    /\ firstTerm.obj.status = "not_applicable"

\* C2 as stated: a polling call that exhausts its budget ends with an error of
\* the Timeout kind reaching the caller.
C2_CallerReceivesTimeoutError ==
    BudgetExhausted => (result.kind = "raise" /\ result.exc.type = "TimeoutError")

\* C2 as amended: a polling call that exhausts its budget ends by raising the
\* uniform CloudGlueError that carries only the timeout message (no status code,
\* payload, headers or reason); it is raised at the first loop test at which
\* elapsed >= timeout, and no status is returned.
C2_TimeoutWrappedInCloudGlueError ==
    BudgetExhausted =>
        /\ result = Raised(CloudGlueError(TimeoutMessage(op), None, None, None, None))
        /\ elapsed >= args.timeout
        /\ (sleeps > 0 => elapsed - args.poll_interval < args.timeout)

C2_Witness ==
    /\ BudgetExhausted
    /\ op = "Describe.run"
    /\ args.poll_interval = 2
    /\ args.timeout = 5
    /\ elapsed = 6
    /\ result.exc.type = "CloudGlueError"
    /\ result.exc.message = TimeoutMessage("Describe.run")

\* C3: with poll_interval > 0 a polling call makes at most
\* ceil(timeout / poll_interval) status fetches; with poll_interval = 3 and
\* timeout = 6 (the ratio of 5 and 10) at most 2.
C3_FetchesAtMostCeil ==
    (op \in PollingOps /\ args.poll_interval > 0) =>
        fetches <= Ceil(args.timeout, args.poll_interval)

C3_Witness ==
    /\ BudgetExhausted
    /\ result.kind = "raise"
    /\ args.poll_interval = 3
    /\ args.timeout = 6
    /\ fetches = 2

\* C4: every polling call terminates, for every poll_interval (0 included),
\* every timeout and every sequence of fetch results.
C4_PollingTerminates == Running ~> (pc = "done")

\* C5: when a status fetch fails the polling call aborts at once: no further
\* fetch, no further sleep, and the call ends with an error.
C5_FailedFetchAborts ==
    failedAt.set =>
        /\ pc = "done"
        /\ result.kind = "raise"
        /\ fetches = failedAt.fetches
        /\ sleeps = failedAt.sleeps

C5_Witness ==
    /\ failedAt.set
    /\ failedAt.fetches = 2
    /\ sleeps = 1
    /\ pc = "done"
    /\ result.kind = "raise"

\* C6: a transport failure with status S inside a polling variant (the job
\* creation of Extract.run / Describe.run, or a status fetch of the loop)
\* reaches the caller as an error carrying S, the payload, the headers and the
\* reason of that failure.
C6_PollingErrorKeepsStatus ==
    (/\ pc = "done"
     /\ op \in PollingOps
     /\ transportExc.type = "ApiException"
     /\ (op \in JobRuns \/ failedAt.set)) =>
        /\ result.kind = "raise"
        /\ result.exc.status_code = transportExc.status_code
        /\ result.exc.data = transportExc.data
        /\ result.exc.headers = transportExc.headers
        /\ result.exc.reason = transportExc.reason

\* C7: a single-round-trip facade operation whose transport call raises the
\* transport exception with status S and reason R raises CloudGlueError with
\* status_code S, reason R and the payload and headers of that exception.
C7_RoundTripErrorKeepsStatus ==
    (/\ pc = "done"
     /\ op \in RoundTrips \cup {"Responses.create"} \cup PollingCreations
     /\ fetches = 0
     /\ transportExc.type = "ApiException") =>
        result = Raised(CloudGlueError(transportExc.message, transportExc.status_code,
                                       transportExc.data, transportExc.headers,
                                       transportExc.reason))

C7_Witness ==
    /\ pc = "done"
    /\ op = "Share.get"
    /\ transportExc.status_code = Some(404)
    /\ result.kind = "raise"
    /\ result.exc.type = "CloudGlueError"
    /\ result.exc.status_code = Some(404)
    /\ result.exc.reason = Some("Not Found")

\* C8: every error the caller can observe, from constructing the client, from
\* a facade call or from iterating the event sequence of a streamed response,
\* is a CloudGlueError.
C8_OnlyCloudGlueError ==
    result.kind = "raise" => result.exc.type = "CloudGlueError"

\* C9: Extract.create and Extract.run with neither prompt nor schema raise the
\* validation error with no transport call made, and in Extract.run with no
\* status fetch and no sleep.
C9_ValidationBeforeNetwork ==
    (op \in {"Extract.create", "Extract.run"} /\ ~args.prompt /\ ~args.schema) =>
        /\ calls = 0
        /\ fetches = 0
        /\ sleeps = 0
        /\ pc \in {"create", "done"}
        /\ (pc = "done" =>
                /\ result.kind = "raise"
                /\ result.exc.message = ValidationMessage)

C9_Witness ==
    /\ op = "Extract.run"
    /\ ~args.prompt
    /\ ~args.schema
    /\ pc = "done"
    /\ calls = 0
    /\ result.kind = "raise"
    /\ result.exc.message = ValidationMessage

\* C10: with wait_until_finish=False, Files.upload, Collections.add_video and
\* Collections.add_youtube_video make the one transport call of the creation,
\* no status fetch and no sleep, and return the creation response as it is,
\* non-terminal status included.
C10_NoWaitReturnsCreation ==
    (op \in PollingCreations /\ ~args.wait_until_finish) =>
        /\ fetches = 0
        /\ sleeps = 0
        /\ calls <= 1
        /\ pc \in {"create", "done"}
        /\ ((pc = "done" /\ response # NoObj) =>
                /\ calls = 1
                /\ result = Returned(response))

C10_Witness ==
    /\ op = "Collections.add_youtube_video"
    /\ ~args.wait_until_finish
    /\ pc = "done"
    /\ calls = 1
    /\ fetches = 0
    /\ result = Returned(response)
    /\ response.status = "processing"

\* C11: once a polling call has observed a terminal status it never issues
\* another status fetch: no step of the call that follows the first terminal
\* fetch is a fetch or leads to one.
C11_NoFetchAfterTerminal ==
    [][firstTerm.n > 0 =>
          /\ pc' \notin {"fetch", "sleep", "check"}
          /\ (pc' # "idle" => fetches' = fetches /\ calls' = calls)]_vars

C11_Witness ==
    /\ op = "Extract.run"
    /\ firstTerm.n = 2
    /\ firstTerm.obj.status = "failed"
    /\ pc = "done"
    /\ fetches = 2
    /\ sleeps = 1

\* C12: resource polling (upload, add_video, add_youtube_video) returns on
\* exactly ready, completed, failed, not_applicable and job polling
\* (Extract.run, Describe.run) on exactly completed, failed; a fetch that
\* returned any other status does not make the call return and is followed by
\* a sleep.
C12_FixedTerminalSets ==
    [][/\ (pc = "inspect" =>
              IF \/ (op \in PollingCreations /\
                       status.status \in {"ready", "completed", "failed", "not_applicable"})
                 \/ (op \in JobRuns /\ status.status \in {"completed", "failed"})
              THEN pc' = "done" /\ result' = Returned(status)
              ELSE pc' = "sleep" /\ result' = result)
       /\ (pc = "sleep" => pc' = "check" /\ sleeps' = Inc(sleeps))]_vars

C12_Witness ==
    /\ op = "Describe.run"
    /\ status.status = "not_applicable"
    /\ pc = "check"
    /\ sleeps = 2
    /\ fetches = 2
    /\ result = NoResult


----------------------------------------------------------------------------
(* The server-sent-event decoder, _iter_sse_events.                        *)
(* Text is a sequence of one-character strings; the wire carries bytes,    *)
(* written the same way, with one two-byte UTF-8 character (U+00E9).       *)

PyStr(t) == [kind |-> "str", num |-> 0, text |-> t]
PyInt(n) == [kind |-> "int", num |-> n, text |-> <<>>]

EventPrefix == <<"e", "v", "e", "n", "t", ":">>
DataPrefix == <<"d", "a", "t", "a", ":">>
DoneSentinel == <<"[", "D", "O", "N", "E", "]">>
Newline == "\n"
CarriageReturn == "\r"
Whitespace == {" ", "\t", "\n", "\r"}

LeadByte == "xC3"
ContinuationByte == "xA9"
EAcute == "U+00E9"

\* bytes.decode("utf-8"), strict: a lead byte needs its continuation byte in
\* the same chunk, a continuation byte needs its lead byte before it.
Utf8Valid(bytes) ==
    \A i \in 1..Len(bytes) :
        /\ (bytes[i] = LeadByte =>
                i < Len(bytes) /\ bytes[i + 1] = ContinuationByte)
        /\ (bytes[i] = ContinuationByte =>
                i > 1 /\ bytes[i - 1] = LeadByte)

IsNotContinuation(b) == b # ContinuationByte

Utf8Decode(bytes) ==
    SelectSeq([i \in 1..Len(bytes) |->
                  IF bytes[i] = LeadByte THEN EAcute ELSE bytes[i]],
              IsNotContinuation)

StartsWith(s, prefix) ==
    /\ Len(s) >= Len(prefix)
    /\ SubSeq(s, 1, Len(prefix)) = prefix

After(s, prefix) == SubSeq(s, Len(prefix) + 1, Len(s))

\* str.rstrip("\r")
RECURSIVE RStripCR(_)
RStripCR(s) ==
    IF Len(s) > 0 /\ s[Len(s)] = CarriageReturn
    THEN RStripCR(SubSeq(s, 1, Len(s) - 1))
    ELSE s

\* str.strip()
RECURSIVE LStrip(_)
LStrip(s) ==
    IF Len(s) > 0 /\ s[1] \in Whitespace THEN LStrip(Tail(s)) ELSE s

RECURSIVE RStrip(_)
RStrip(s) ==
    IF Len(s) > 0 /\ s[Len(s)] \in Whitespace
    THEN RStrip(SubSeq(s, 1, Len(s) - 1))
    ELSE s

Strip(s) == LStrip(RStrip(s))

\* a join that keeps only the first line
JoinFirstOnly(lines) == IF lines = <<>> THEN <<>> ELSE lines[1]

\* "\n".join(lines)
RECURSIVE Join(_)
Join(lines) ==
    IF lines = <<>> THEN <<>>
    ELSE IF Len(lines) = 1 THEN lines[1]
    ELSE lines[1] \o <<Newline>> \o Join(Tail(lines))

\* json.loads on the texts a stream of this model can carry: a decimal
\* integer, or a string literal without escapes; anything else raises
\* json.JSONDecodeError.
Digits == <<"0", "1", "2", "3", "4", "5", "6", "7", "8", "9">>

DigitValue(c) == (CHOOSE i \in 1..Len(Digits) : Digits[i] = c) - 1

IsDigit(c) == \E i \in 1..Len(Digits) : Digits[i] = c

IsJsonInt(t) ==
    /\ Len(t) > 0
    /\ \A i \in 1..Len(t) : IsDigit(t[i])
    /\ (Len(t) > 1 => t[1] # "0")

IsJsonString(t) ==
    /\ Len(t) >= 2
    /\ t[1] = "\""
    /\ t[Len(t)] = "\""
    /\ \A i \in 2..(Len(t) - 1) : t[i] \notin {"\"", "\\", Newline}

RECURSIVE IntValue(_)
IntValue(t) ==
    IF t = <<>> THEN 0
    ELSE 10 * IntValue(SubSeq(t, 1, Len(t) - 1)) + DigitValue(t[Len(t)])

JsonValid(t) == IsJsonInt(Strip(t)) \/ IsJsonString(Strip(t))

JsonLoads(t) ==
    IF IsJsonInt(Strip(t)) THEN PyInt(IntValue(Strip(t)))
    ELSE PyStr(SubSeq(Strip(t), 2, Len(Strip(t)) - 1))

\* The decoder's locals and what it has yielded, as one value.
Decoder(b, e, dl, y, l) ==
    [buffer |-> b, current_event |-> e, current_data_lines |-> dl,
     yielded |-> y, loaded |-> l]

\* a payload rule without the sentinel check
ParseDataNoSentinel(raw_data) ==
    [data |-> IF JsonValid(raw_data) THEN JsonLoads(raw_data) ELSE PyStr(raw_data),
     loads |-> {raw_data}]

\* a payload rule without the fallback to the raw text
ParseDataNoFallback(raw_data) ==
    IF raw_data = DoneSentinel
    THEN [data |-> PyStr(raw_data), loads |-> {}]
    ELSE [data |-> IF JsonValid(raw_data) THEN JsonLoads(raw_data) ELSE PyStr(<<>>),
          loads |-> {raw_data}]

\* `if raw_data == "[DONE]": parsed_data = raw_data`, else json.loads with the
\* raw text kept on json.JSONDecodeError; `loads` is what json.loads was given.
ParseData(raw_data) ==
    IF raw_data = DoneSentinel
    THEN [data |-> PyStr(raw_data), loads |-> {}]
    ELSE [data |-> IF JsonValid(raw_data) THEN JsonLoads(raw_data) ELSE PyStr(raw_data),
          loads |-> {raw_data}]

\* a guard that lets every blank line yield
HasPendingDataAlways(d) == TRUE

\* `if current_data_lines:`
HasPendingData(d) == d.current_data_lines # <<>>

\* the joined text of the pending block
RawData(d) == Join(d.current_data_lines)

\* a flush that joins nothing but the first data line
YieldRecordFirstLineOnly(d) ==
    [d EXCEPT !.yielded = Append(@, [event |-> d.current_event,
                                     data |-> ParseData(JoinFirstOnly(d.current_data_lines)).data]),
              !.loaded = @ \cup ParseData(JoinFirstOnly(d.current_data_lines)).loads]

\* `yield {"event": current_event, "data": parsed_data}`
YieldRecord(d) ==
    [d EXCEPT !.yielded = Append(@, [event |-> d.current_event,
                                     data |-> ParseData(RawData(d)).data]),
              !.loaded = @ \cup ParseData(RawData(d)).loads]

\* a reset that forgets the data lines only
ResetBlockKeepsEvent(d) == [d EXCEPT !.current_data_lines = <<>>]

\* `current_event = None; current_data_lines = []`
ResetBlock(d) == [d EXCEPT !.current_event = None, !.current_data_lines = <<>>]

\* a line rule that takes every line without a known prefix for a blank line
ProcessLineOtherFlushes(d, line) ==
    IF StartsWith(line, EventPrefix)
    THEN [d EXCEPT !.current_event = Some(Strip(After(line, EventPrefix)))]
    ELSE IF StartsWith(line, DataPrefix)
    THEN [d EXCEPT !.current_data_lines = Append(@, Strip(After(line, DataPrefix)))]
    ELSE ResetBlock(IF HasPendingData(d) THEN YieldRecord(d) ELSE d)

\* One line of the buffer, already stripped of trailing carriage returns.
ProcessLine(d, line) ==
    IF StartsWith(line, EventPrefix)
    THEN [d EXCEPT !.current_event = Some(Strip(After(line, EventPrefix)))]
    ELSE IF StartsWith(line, DataPrefix)
    THEN [d EXCEPT !.current_data_lines = Append(@, Strip(After(line, DataPrefix)))]
    ELSE IF line = <<>>
    THEN ResetBlock(IF HasPendingData(d) THEN YieldRecord(d) ELSE d)
    ELSE d

HasNewline(b) == \E i \in 1..Len(b) : b[i] = Newline

FirstNewline(b) ==
    CHOOSE i \in 1..Len(b) :
        b[i] = Newline /\ \A j \in 1..(i - 1) : b[j] # Newline

\* `while "\n" in buffer: line, buffer = buffer.split("\n", 1); ...`
RECURSIVE Drain(_)
Drain(d) ==
    IF HasNewline(d.buffer)
    THEN Drain(ProcessLine(
                 [d EXCEPT !.buffer = SubSeq(@, FirstNewline(@) + 1, Len(@))],
                 RStripCR(SubSeq(d.buffer, 1, FirstNewline(d.buffer) - 1))))
    ELSE d

\* a decoder that stops reading once it has yielded the sentinel
FeedStopsAfterDone(d, chunk) ==
    IF \E i \in 1..Len(d.yielded) : d.yielded[i].data = PyStr(DoneSentinel)
    THEN d
    ELSE Drain([d EXCEPT !.buffer = @ \o chunk])

\* `buffer += chunk` and the loop over the complete lines
Feed(d, chunk) == Drain([d EXCEPT !.buffer = @ \o chunk])

\* an end of stream that drops the pending block
FinishNoFlush(d) == d

\* an end of stream that takes the rest of the buffer for a last line
FinishProcessesTail(d) ==
    IF d.buffer = <<>>
    THEN (IF HasPendingData(d) THEN YieldRecord(d) ELSE d)
    ELSE LET t == ProcessLine([d EXCEPT !.buffer = <<>>], RStripCR(d.buffer))
         IN  IF HasPendingData(t) THEN YieldRecord(t) ELSE t

\* the flush after the chunk loop
Finish(d) == IF HasPendingData(d) THEN YieldRecord(d) ELSE d

\* What a server can send within the bounds: up to MaxLines lines, all ended
\* by "\n" or all by "\r\n", the last one possibly cut before its terminator.
MaxLines == 3
MaxChunk == 2
amt == 4096

LineRepertoire ==
    { <<>>,
      <<"d", "a", "t", "a", ":", " ", "1">>,
      <<"d", "a", "t", "a", ":", "x">>,
      <<"d", "a", "t", "a", ":", " ", "[", "D", "O", "N", "E", "]">>,
      <<"d", "a", "t", "a", ":", "\"", LeadByte, ContinuationByte, "\"">>,
      <<"e", "v", "e", "n", "t", ":", " ", "m">>,
      <<" ">> }

Terminators == { <<Newline>>, <<CarriageReturn, Newline>> }

RECURSIVE Wire(_, _, _)
Wire(lines, terminator, complete) ==
    IF lines = <<>> THEN <<>>
    ELSE IF Len(lines) = 1 /\ ~complete THEN lines[1]
    ELSE lines[1] \o terminator \o Wire(Tail(lines), terminator, complete)

Streams ==
    { Wire(ls, t, c) :
        ls \in UNION { [1..n -> LineRepertoire] : n \in 0..MaxLines },
        t \in Terminators,
        c \in BOOLEAN }

Min(a, b) == IF a < b THEN a ELSE b

\* The sizes of the next chunk of `raw_response.stream(amt=4096)`: at most amt
\* bytes, at most what is left; the small sizes and the whole remainder are
\* explored.
ChunkSizes ==
    { k \in 1..Min(amt, Len(stream) - pos) : k <= MaxChunk \/ k = Len(stream) - pos }

Current == Decoder(buffer, current_event, current_data_lines, yielded, loaded)

Becomes(d) ==
    /\ buffer' = d.buffer
    /\ current_event' = d.current_event
    /\ current_data_lines' = d.current_data_lines
    /\ yielded' = d.yielded
    /\ loaded' = d.loaded

\* The state after Responses.create(stream=True) has returned the generator.
SseInit ==
    /\ NoConcurrentCalls
    /\ NoRequestBuilt
    /\ api_key = Some("sk-arg")
    /\ given = Constructed(Some("sk-arg"), None)
    /\ scope = NoScope
    /\ client = "ready"
    /\ pc = "done"
    /\ op = "Responses.create"
    /\ args = [NoArgs EXCEPT !.stream = TRUE]
    /\ elapsed = 0
    /\ response = RawResponse(200)
    /\ status = NoObj
    /\ result = [kind |-> "generator", value |-> NoObj, exc |-> NoExc]
    /\ gen = "open"
    /\ calls = 1
    /\ fetches = 0
    /\ sleeps = 0
    /\ transportExc = NoExc
    /\ firstTerm = NoFirstTerm
    /\ failedAt = NoSnapshot
    /\ stream \in Streams
    /\ pos = 0
    /\ buffer = <<>>
    /\ current_event = None
    /\ current_data_lines = <<>>
    /\ yielded = <<>>
    /\ loaded = {}

Iterating == gen = "open" /\ pc = "done" /\ op = "Responses.create"

\* One pass of `for chunk in raw_response.stream(...)`: decode, append, drain.
ReadChunk ==
    /\ Iterating
    /\ \E k \in ChunkSizes :
         /\ Utf8Valid(SubSeq(stream, pos + 1, pos + k))
         /\ pos' = pos + k
         /\ Becomes(Feed(Current, Utf8Decode(SubSeq(stream, pos + 1, pos + k))))
    /\ UNCHANGED stream
    /\ UNCHANGED <<facadeVars, concVars, lifeVars, oneofVars>>

\* `chunk.decode("utf-8")` raises: the generator dies in the caller's frame.
ReadChunkUndecodable ==
    /\ Iterating
    /\ \E k \in ChunkSizes : ~Utf8Valid(SubSeq(stream, pos + 1, pos + k))
    /\ result' = Raised(PyException("UnicodeDecodeError", "invalid continuation byte"))
    /\ gen' = "raised"
    /\ UNCHANGED <<client, pc, op, args, elapsed, response, status, calls,
                   fetches, sleeps, transportExc, firstTerm, failedAt>>
    /\ UNCHANGED <<sseVars, concVars, lifeVars, oneofVars>>

\* The chunk loop is over: the final flush, then the generator is exhausted.
EndOfStream ==
    /\ Iterating
    /\ pos = Len(stream)
    /\ Becomes(Finish(Current))
    /\ gen' = "exhausted"
    /\ UNCHANGED <<stream, pos>>
    /\ UNCHANGED <<client, pc, op, args, elapsed, response, status, result, calls,
                   fetches, sleeps, transportExc, firstTerm, failedAt>>
    /\ UNCHANGED <<concVars, lifeVars, oneofVars>>

SseNext ==
    \/ ReadChunk
    \/ ReadChunkUndecodable
    \/ EndOfStream

SseSpec == SseInit /\ [][SseNext]_vars


----------------------------------------------------------------------------
(* The decoder's contract, stated over the lines of the stream *)

\* The text the decoder has been given so far.
Consumed == Utf8Decode(SubSeq(stream, 1, pos))

NewlineIdx(t) == { i \in 1..Len(t) : t[i] = Newline }

Kth(S, k) == CHOOSE x \in S : Cardinality({ y \in S : y < x }) = k - 1

Highest(S) == CHOOSE x \in S : \A y \in S : y <= x

\* The complete physical lines of a text, without terminator and trailing
\* carriage returns.
CompleteLines(t) ==
    LET nl == NewlineIdx(t)
    IN  [k \in 1..Cardinality(nl) |->
            RStripCR(SubSeq(t,
                            IF k = 1 THEN 1 ELSE Kth(nl, k - 1) + 1,
                            Kth(nl, k) - 1))]

IsEventLine(l) == StartsWith(l, EventPrefix)
IsDataLine(l) == ~IsEventLine(l) /\ StartsWith(l, DataPrefix)

BlankIdx(L) == { i \in 1..Len(L) : L[i] = <<>> }

\* The first line after the blank line (or the start) that precedes line e.
BlockStart(L, e) == Highest({0} \cup { b \in BlankIdx(L) : b < e }) + 1

\* The trimmed data fields of lines s..e, in stream order.
DataFields(L, s, e) ==
    LET dl == SelectSeq(SubSeq(L, s, e), IsDataLine)
    IN  [i \in 1..Len(dl) |-> Strip(After(dl[i], DataPrefix))]

\* The event name lines s..e give: the last event: line, trimmed, or none.
EventName(L, s, e) ==
    LET ev == { i \in s..e : IsEventLine(L[i]) }
    IN  IF ev = {} THEN None ELSE Some(Strip(After(L[Highest(ev)], EventPrefix)))

\* The blank lines that close a block with at least one data line.
ClosingBlanks(L) ==
    { e \in BlankIdx(L) : DataFields(L, BlockStart(L, e), e) # <<>> }

Block(L, s, e) == [event |-> EventName(L, s, e), raw |-> Join(DataFields(L, s, e))]

ClosedBlocks(L) ==
    LET closing == ClosingBlanks(L)
    IN  [k \in 1..Cardinality(closing) |->
            LET e == Kth(closing, k) IN Block(L, BlockStart(L, e), e)]

\* The block that no blank line has closed yet.
PendingData(L) == DataFields(L, BlockStart(L, Len(L) + 1), Len(L))
PendingEvent(L) == EventName(L, BlockStart(L, Len(L) + 1), Len(L))

\* The blocks a record is due for: the closed ones and, once the stream has
\* ended, the pending one.
DueBlocks ==
    LET L == CompleteLines(Consumed)
    IN  ClosedBlocks(L) \o
        (IF gen = "exhausted" /\ PendingData(L) # <<>>
         THEN << [event |-> PendingEvent(L), raw |-> Join(PendingData(L))] >>
         ELSE <<>>)

\* The payload rule: the sentinel as a string, valid JSON parsed, anything
\* else as the raw text.
SpecPayload(raw) ==
    IF raw = DoneSentinel THEN PyStr(DoneSentinel)
    ELSE IF JsonValid(raw) THEN JsonLoads(raw)
    ELSE PyStr(raw)

\* What reading the whole stream as one chunk yields.
OneChunk(s) ==
    Finish(Feed(Decoder(<<>>, None, <<>>, <<>>, {}), Utf8Decode(s))).yielded

\* C13: whatever the chunk boundaries, the generator ends normally having
\* yielded the records that reading the stream as one single chunk yields.
C13_ChunkingIndependent ==
    gen # "open" =>
        /\ gen = "exhausted"
        /\ yielded = OneChunk(stream)

\* C14: a block whose joined text is [DONE] yields the string "[DONE]", and
\* json.loads is never called with that text, whether the block is flushed by
\* a blank line or at the end of the stream.
C14_DoneSentinelNotParsed ==
    /\ DoneSentinel \notin loaded
    /\ LET due == DueBlocks
       IN  \A i \in 1..Len(due) :
               due[i].raw = DoneSentinel =>
                   /\ i <= Len(yielded)
                   /\ yielded[i].data = [kind |-> "str", num |-> 0, text |-> DoneSentinel]

C14_Witness ==
    /\ gen = "exhausted"
    /\ Len(yielded) = 2
    /\ yielded[1].data.text = DoneSentinel
    /\ yielded[2].data.text = DoneSentinel
    /\ current_data_lines = << DoneSentinel >>
    /\ Cardinality(BlankIdx(CompleteLines(Consumed))) = 1
    /\ loaded = {}

\* C15: a block that is not valid JSON yields its raw joined text, and every
\* later block is still yielded, decoded by the usual rule.
C15_MalformedJsonDegrades ==
    LET due == DueBlocks
    IN  \A i \in 1..Len(due) :
            (~JsonValid(due[i].raw) /\ due[i].raw # DoneSentinel) =>
                /\ i <= Len(yielded)
                /\ yielded[i].data = PyStr(due[i].raw)
                /\ \A j \in (i + 1)..Len(due) :
                       /\ j <= Len(yielded)
                       /\ yielded[j] = [event |-> due[j].event,
                                        data |-> SpecPayload(due[j].raw)]

C15_Witness ==
    /\ gen = "exhausted"
    /\ Len(yielded) = 2
    /\ yielded[1].data = PyStr(<<"x">>)
    /\ yielded[2].data = PyInt(1)
    /\ loaded = { <<"x">>, <<"1">> }

\* The records yielded at blank lines (the end of the stream adds at most one).
BlankFlushed ==
    IF gen = "exhausted" /\ current_data_lines # <<>>
    THEN Len(yielded) - 1
    ELSE Len(yielded)

\* C16 as stated: as many records are yielded at blank lines as there are
\* blank lines.
C16_OneRecordPerBlankLine ==
    BlankFlushed = Cardinality(BlankIdx(CompleteLines(Consumed)))

\* C16: one record is yielded for each blank line that closes a block with at
\* least one data line; a blank line with no data line pending yields nothing.
C16_OneRecordPerDataBlock ==
    BlankFlushed = Cardinality(ClosingBlanks(CompleteLines(Consumed)))

C16_Witness ==
    /\ gen = "open"
    /\ Cardinality(BlankIdx(CompleteLines(Consumed))) = 2
    /\ Len(yielded) = 1
    /\ buffer = <<>>

\* C17: each record's payload is computed from the block's data fields, each
\* trimmed, joined by newlines in stream order, and only such joined texts
\* are parsed.
C17_DataLinesJoinedInOrder ==
    LET due == DueBlocks
    IN  /\ Len(yielded) = Len(due)
        /\ \A i \in 1..Len(yielded) : yielded[i].data = SpecPayload(due[i].raw)
        /\ loaded = { due[i].raw : i \in 1..Len(due) } \ { DoneSentinel }

C17_Witness ==
    /\ Len(yielded) = 1
    /\ yielded[1].data = PyStr(<<"1", Newline, "x">>)
    /\ loaded = { <<"1", Newline, "x">> }
    /\ gen = "open"

\* C18: when the stream ends with data lines pending, they are yielded as one
\* last record with the pending event name and the usual payload; when none
\* is pending the end of the stream yields nothing.
C18_EndOfStreamFlush ==
    gen = "exhausted" =>
        LET L == CompleteLines(Consumed)
            closed == Cardinality(ClosingBlanks(L))
        IN  IF PendingData(L) # <<>>
            THEN /\ Len(yielded) = closed + 1
                 /\ yielded[closed + 1] = [event |-> PendingEvent(L),
                                           data |-> SpecPayload(Join(PendingData(L)))]
            ELSE Len(yielded) = closed

C18_Witness ==
    /\ gen = "exhausted"
    /\ yielded = << [event |-> Some(<<"m">>), data |-> PyInt(1)] >>
    /\ BlankIdx(CompleteLines(Consumed)) = {}
    /\ Len(CompleteLines(Consumed)) = 2

\* C19: the pending event name and data lines are those of the lines since
\* the last blank line, and each record's event name is the one given since
\* the blank line before its block, or None.
C19_BlockStateReset ==
    LET L == CompleteLines(Consumed)
        due == DueBlocks
    IN  /\ gen = "open" =>
               /\ current_event = PendingEvent(L)
               /\ current_data_lines = PendingData(L)
        /\ \A i \in 1..Len(yielded) :
               /\ i <= Len(due)
               /\ yielded[i].event = due[i].event

C19_Witness ==
    /\ gen = "exhausted"
    /\ Len(CompleteLines(Consumed)) = 3
    /\ IsEventLine(CompleteLines(Consumed)[1])
    /\ CompleteLines(Consumed)[2] = <<>>
    /\ yielded = << [event |-> None, data |-> PyInt(1)] >>


----------------------------------------------------------------------------
(* Two callers inside Files.upload(wait_until_finish=True) on one facade     *)
(* instance at the same time.  `elapsed` and `status` are locals of the     *)
(* method: each call has its own frame.  The facade instance itself is only *)
(* read (self.api, self.get).                                               *)

MaxConcTimeout == 2
MaxConcInterval == 2

ConcTimeouts == 0..MaxConcTimeout
ConcIntervals == 1..MaxConcInterval

\* locals kept on the shared facade instance
FrameOfInstance(c) == "a"

\* the frame that holds a caller's locals: its own
FrameOf(c) == c

\* What self.get(file_id) can give a caller: its own file in some status, or
\* an exception of the transport.
FetchResults(c) ==
    { Returned(Obj(s, IF c = "a" THEN 1 ELSE 2)) : s \in Statuses }
        \cup { Raised(e) : e \in TransportExceptions }

\* Both callers have made their upload call and stand before `elapsed = 0`.
ConcInit ==
    /\ NoRequestBuilt
    /\ api_key = Some("sk-arg")
    /\ given = Constructed(Some("sk-arg"), None)
    /\ scope = NoScope
    /\ client = "ready"
    /\ pc = "idle"
    /\ op = "none"
    /\ args = NoArgs
    /\ elapsed = 0
    /\ response = NoObj
    /\ status = NoObj
    /\ result = NoResult
    /\ gen = "none"
    /\ calls = 0
    /\ fetches = 0
    /\ sleeps = 0
    /\ transportExc = NoExc
    /\ firstTerm = NoFirstTerm
    /\ failedAt = NoSnapshot
    /\ stream = <<>>
    /\ pos = 0
    /\ buffer = <<>>
    /\ current_event = None
    /\ current_data_lines = <<>>
    /\ yielded = <<>>
    /\ loaded = {}
    /\ at = [c \in Callers |-> "start"]
    /\ callArgs \in [Callers -> { [NoArgs EXCEPT !.wait_until_finish = TRUE,
                                                 !.poll_interval = p,
                                                 !.timeout = t] :
                                    p \in ConcIntervals, t \in ConcTimeouts }]
    /\ locals = [c \in Callers |-> NoLocals]
    /\ returned = [c \in Callers |-> NoResult]
    /\ seen = [c \in Callers |-> <<>>]
    /\ interleaved = FALSE

InsideLoop(c) == at[c] \notin {"start", "done"}

\* A step of caller c: the history notes whether another caller is inside
\* its loop at that moment.
StepOf(c) ==
    /\ interleaved' = (interleaved \/ \E d \in Callers \ {c} : InsideLoop(d))
    /\ UNCHANGED <<facadeVars, sseVars, callArgs, lifeVars, oneofVars>>

\* `elapsed = 0`
EnterLoop(c) ==
    /\ at[c] = "start"
    /\ locals' = [locals EXCEPT ![FrameOf(c)].elapsed = 0]
    /\ at' = [at EXCEPT ![c] = "check"]
    /\ UNCHANGED <<returned, seen>>
    /\ StepOf(c)

\* `while elapsed < timeout:` and the TimeoutError after the loop
CheckOf(c) ==
    /\ at[c] = "check"
    /\ IF LoopCondition(locals[FrameOf(c)].elapsed, callArgs[c].timeout)
       THEN /\ at' = [at EXCEPT ![c] = "fetch"]
            /\ UNCHANGED returned
       ELSE /\ at' = [at EXCEPT ![c] = "done"]
            /\ returned' = [returned EXCEPT
                              ![c] = Raised(FacadeHandler(TimeoutError("Files.upload")))]
    /\ UNCHANGED <<locals, seen>>
    /\ StepOf(c)

\* `status = self.get(file_id=file_id)`
FetchOf(c) ==
    /\ at[c] = "fetch"
    /\ \E r \in FetchResults(c) :
         /\ seen' = [seen EXCEPT ![c] = Append(@, r)]
         /\ IF r.kind = "raise"
            THEN /\ at' = [at EXCEPT ![c] = "done"]
                 /\ returned' = [returned EXCEPT
                                   ![c] = Raised(FacadeHandler(FacadeHandler(r.exc)))]
                 /\ UNCHANGED locals
            ELSE /\ at' = [at EXCEPT ![c] = "inspect"]
                 /\ locals' = [locals EXCEPT ![FrameOf(c)].status = r.value]
                 /\ UNCHANGED returned
    /\ StepOf(c)

\* `if status.status in terminal_states: return status`
InspectOf(c) ==
    /\ at[c] = "inspect"
    /\ IF locals[FrameOf(c)].status.status \in TerminalStates("Files.upload")
       THEN /\ at' = [at EXCEPT ![c] = "done"]
            /\ returned' = [returned EXCEPT ![c] = Returned(locals[FrameOf(c)].status)]
       ELSE /\ at' = [at EXCEPT ![c] = "sleep"]
            /\ UNCHANGED returned
    /\ UNCHANGED <<locals, seen>>
    /\ StepOf(c)

\* `time.sleep(poll_interval); elapsed += poll_interval`
SleepOf(c) ==
    /\ at[c] = "sleep"
    /\ locals' = [locals EXCEPT ![FrameOf(c)].elapsed = @ + callArgs[c].poll_interval]
    /\ at' = [at EXCEPT ![c] = "check"]
    /\ UNCHANGED <<returned, seen>>
    /\ StepOf(c)

ConcNext ==
    \/ \E c \in Callers : EnterLoop(c)
    \/ \E c \in Callers : CheckOf(c)
    \/ \E c \in Callers : FetchOf(c)
    \/ \E c \in Callers : InspectOf(c)
    \/ \E c \in Callers : SleepOf(c)

ConcSpec == ConcInit /\ [][ConcNext]_vars

\* Files.upload's loop run by one caller alone against a given sequence of
\* fetch results, from the k-th fetch on with `elapsed` at e.  A run that
\* would need a fetch result the sequence does not have has no result.
RECURSIVE AloneFrom(_, _, _, _)
AloneFrom(script, a, k, e) ==
    IF ~(e < a.timeout)
    THEN [fetches |-> k, elapsed |-> e,
          result |-> Raised(CloudGlueError(
                        "File processing did not complete within timeout seconds",
                        None, None, None, None))]
    ELSE IF k = Len(script)
    THEN [fetches |-> k + 1, elapsed |-> e, result |-> NoResult]
    ELSE IF script[k + 1].kind = "raise"
    THEN [fetches |-> k + 1, elapsed |-> e,
          result |-> Raised(CloudGlueError(script[k + 1].exc.message,
                                           None, None, None, None))]
    ELSE IF script[k + 1].value.status \in {"ready", "completed", "failed", "not_applicable"}
    THEN [fetches |-> k + 1, elapsed |-> e, result |-> Returned(script[k + 1].value)]
    ELSE AloneFrom(script, a, k + 1, e + a.poll_interval)

Alone(script, a) == AloneFrom(script, a, 0, 0)

\* C20: however two polling calls on one facade instance interleave, a call
\* that has ended made as many fetches, counted as much elapsed time and
\* returned or raised the same as it would alone against the fetch results it
\* was served.
C20_CallsIndependent ==
    \A c \in Callers :
        at[c] = "done" =>
            /\ Alone(seen[c], callArgs[c]).result = returned[c]
            /\ Alone(seen[c], callArgs[c]).fetches = Len(seen[c])
            /\ Alone(seen[c], callArgs[c]).elapsed = locals[c].elapsed

C20_Witness ==
    /\ interleaved
    /\ at["a"] = "done"
    /\ at["b"] = "done"
    /\ Len(seen["a"]) = 2
    /\ Len(seen["b"]) = 2
    /\ returned["a"].kind = "raise"
    /\ returned["a"].exc.message = "File processing did not complete within timeout seconds"
    /\ returned["b"] = Returned(Obj("ready", 2))
    /\ callArgs["a"].poll_interval = 1
    /\ callArgs["b"].poll_interval = 1


----------------------------------------------------------------------------
(* close(), __enter__ and __exit__ of the CloudGlue object *)

\* a close that leaves the transport client open
CloseClientNothing(c) == c

\* `if hasattr(self, "api_client") and self.api_client: self.api_client.close()`
CloseClient(c) == IF c \in {"ready", "closed"} THEN "closed" ELSE c

\* What the body of a `with` statement can raise by itself.
BodyExceptions == { PyException("RuntimeError", "body failed") }

\* __exit__ has no return statement.
ExitReturnValue == None

\* `with client:` calls __enter__, which returns self.
EnterWith ==
    /\ client = "ready"
    /\ pc = "idle"
    /\ scope.at = "outside"
    /\ scope' = [scope EXCEPT !.at = "body", !.last = "__enter__"]
    /\ UNCHANGED <<facadeVars, sseVars, concVars, api_key, given, oneofVars>>

\* How the body of the `with` statement can end: it runs to its end, raises
\* by itself, or lets the error of a facade call escape.
BodyOutcomes ==
    IF pc = "idle" THEN {NoExc} \cup BodyExceptions
    ELSE IF pc = "done" /\ result.kind = "raise" THEN {result.exc}
    ELSE {}

\* The body ends and __exit__(exc_type, exc_val, exc_tb) runs: close, then
\* return None, so the exception of the body, if any, goes on to the caller.
ExitWith ==
    /\ scope.at = "body"
    /\ client' = CloseClient(client)
    /\ \E e \in BodyOutcomes :
         scope' = [scope EXCEPT
                     !.at = "left",
                     !.exc = e,
                     !.last = "__exit__",
                     !.left = IF e = NoExc \/ Truthy(ExitReturnValue)
                              THEN Returned(NoObj)
                              ELSE Raised(e)]
    /\ UNCHANGED <<pc, op, args, elapsed, response, status, result, gen, calls,
                   fetches, sleeps, transportExc, firstTerm, failedAt>>
    /\ UNCHANGED <<sseVars, concVars, api_key, given, oneofVars>>

\* An explicit client.close() between two calls.
Close ==
    /\ client \in {"ready", "closed"}
    /\ pc = "idle"
    /\ scope.at \in {"outside", "body"}
    /\ client' = CloseClient(client)
    /\ scope' = [scope EXCEPT !.last = "close"]
    /\ UNCHANGED <<pc, op, args, elapsed, response, status, result, gen, calls,
                   fetches, sleeps, transportExc, firstTerm, failedAt>>
    /\ UNCHANGED <<sseVars, concVars, api_key, given, oneofVars>>

LifeNext ==
    \/ \E k \in ArgumentKeys, v \in EnvironmentKeys : Construct(k, v)
    \/ EnterWith
    \/ InvokeRoundTrip
    \/ RoundTrip
    \/ CallerProceeds
    \/ ExitWith
    \/ Close

LifeSpec == Init /\ [][LifeNext]_vars

\* C21: once a `with` statement has been left the transport client is closed
\* and what the body raised has gone on to the caller unchanged; after an
\* explicit close() the transport client is closed too.
C21_WithAlwaysCloses ==
    /\ scope.at = "left" =>
          /\ client = "closed"
          /\ scope.left = IF scope.exc = NoExc
                          THEN [kind |-> "return", value |-> NoObj, exc |-> NoExc]
                          ELSE [kind |-> "raise", value |-> NoObj, exc |-> scope.exc]
    /\ scope.last \in {"close", "__exit__"} => client = "closed"

C21_Witness ==
    /\ scope.at = "left"
    /\ scope.exc.type = "CloudGlueError"
    /\ scope.exc.status_code = Some(404)
    /\ scope.left.kind = "raise"
    /\ client = "closed"

\* C22: the client holds the api_key argument when that is non-empty, else the
\* environment value when that is non-empty; with neither the constructor
\* raises and no client exists.
C22_KeyFallback ==
    given.called =>
        IF given.key # None /\ given.key # Some("")
        THEN client # "unconstructed" /\ api_key = given.key
        ELSE IF given.env # None /\ given.env # Some("")
        THEN client # "unconstructed" /\ api_key = given.env
        ELSE /\ client = "unconstructed"
             /\ result.kind = "raise"
             /\ result.exc.type = "ValueError"
             /\ calls = 0

C22_Witness ==
    /\ given = Constructed(Some(""), Some("sk-env"))
    /\ api_key = Some("sk-env")
    /\ client = "ready"
    /\ pc = "done"


\* C23: a polling call that fails with the timeout has made at least one
\* status fetch, whatever the timeout.
C23_FetchBeforeTimeout ==
    BudgetExhausted => fetches >= 1

\* The status fetches of the call that returned a non-terminal status.
NonTerminalFetches ==
    fetches - (IF firstTerm.n > 0 THEN 1 ELSE 0) - (IF failedAt.set THEN 1 ELSE 0)

C26_TimeoutAfterSleep ==
    (BudgetExhausted /\ args.poll_interval > 0) =>
        /\ sleeps = fetches
        /\ firstTerm.n = 0
        /\ result.kind = "raise"
        /\ (fetches > 0 => status.status \notin SpecTerminal(op))

C26_Witness ==
    /\ BudgetExhausted
    /\ op = "Collections.add_youtube_video"
    /\ args.poll_interval = 3
    /\ args.timeout = 5
    /\ sleeps = 2
    /\ fetches = 2
    /\ result.kind = "raise"


\* C25: a streamed Responses.create whose raw response has a status other
\* than 200 raises CloudGlueError with that status as status_code, returns no
\* event sequence, and the decoder yields nothing.
C25_StreamErrorKeepsStatus ==
    (/\ op = "Responses.create"
     /\ args.stream
     /\ pc = "done"
     /\ response.status = "raw"
     /\ response.seq # 200) =>
        /\ result.kind = "raise"
        /\ result.exc.type = "CloudGlueError"
        /\ result.exc.status_code = Some(response.seq)
        /\ gen = "none"
        /\ yielded = <<>>


\* The record the contract gives for a block.
RecordOf(b) == [event |-> b.event, data |-> SpecPayload(b.raw)]

\* C27: a record with payload "[DONE]" does not end the decoding: every later
\* block of the bytes read is yielded, in order, and the generator is
\* exhausted only when the stream has been read to its end.
C27_DoneDoesNotTerminate ==
    LET due == DueBlocks
    IN  /\ \A i \in 1..Len(yielded) :
               yielded[i].data = PyStr(DoneSentinel) =>
                   \A j \in (i + 1)..Len(due) :
                       /\ j <= Len(yielded)
                       /\ yielded[j] = RecordOf(due[j])
        /\ gen = "exhausted" => pos = Len(stream)

C27_Witness ==
    /\ gen = "exhausted"
    /\ Len(yielded) = 2
    /\ yielded[1].data = PyStr(DoneSentinel)
    /\ yielded[2].data = PyInt(1)
    /\ pos = Len(stream)

\* The text after the last newline of the bytes read.
Unterminated ==
    LET nl == NewlineIdx(Consumed)
    IN  SubSeq(Consumed, (IF nl = {} THEN 0 ELSE Highest(nl)) + 1, Len(Consumed))

OtherLines ==
    { <<":", "c">>, <<"i", "d", ":", "1">>, <<"r", "e", "t", "r", "y", ":", "5">>,
      <<" ">>, <<"d", "a", "t", "a">> }

IsBlockLine(l) == l = <<>> \/ IsEventLine(l) \/ IsDataLine(l)

\* C29: a non-empty line that starts with neither event: nor data: changes
\* nothing: the decoder is where the stream without such lines would have
\* put it.
C29_OtherLinesIgnored ==
    /\ \A l \in OtherLines : ProcessLine(Current, l) = Current
    /\ gen = "open" =>
           LET kept == SelectSeq(CompleteLines(Consumed), IsBlockLine)
           IN  /\ current_event = PendingEvent(kept)
               /\ current_data_lines = PendingData(kept)
               /\ Len(yielded) = Cardinality(ClosingBlanks(kept))

C29_Witness ==
    /\ gen = "open"
    /\ CompleteLines(Consumed) = << <<"d", "a", "t", "a", ":", " ", "1">>, <<" ">>, <<>> >>
    /\ Consumed[8] = CarriageReturn
    /\ yielded = << [event |-> None, data |-> PyInt(1)] >>


----------------------------------------------------------------------------
(* fix-oneof-constraints.py and the AddCollectionFile model it rewrites *)

\* What the generator can leave in cloudglue/sdk/models/add_collection_file.py:
\* no file at all, or a model whose two fields are required or optional, with
\* or without the pydantic import; or the file a former run of the script
\* left, the only one with the validator.
GeneratedFiles ==
    { [exists |-> FALSE, file_id_optional |-> FALSE, url_optional |-> FALSE,
       imports_validator |-> FALSE, has_validator |-> FALSE] }
    \cup
    { [exists |-> TRUE, file_id_optional |-> f, url_optional |-> u,
       imports_validator |-> i, has_validator |-> FALSE] :
         f \in BOOLEAN, u \in BOOLEAN, i \in BOOLEAN }
    \cup
    { ShippedModelFile }

\* The values a caller can pass for file_id and for url.
FieldValues == {None, Some(""), Some("f"), Some("u")}

\* `'model_validator' in content`: the import and the decorator both contain it
MentionsValidator(m) == m.imports_validator \/ m.has_validator

\* fix_add_collection_file() on the content of the file
FixedContent(m) ==
    [exists            |-> TRUE,
     file_id_optional  |-> TRUE,
     url_optional      |-> TRUE,
     imports_validator |-> IF ~MentionsValidator(m) THEN TRUE ELSE m.imports_validator,
     has_validator     |-> TRUE]

\* validate_file_id_or_url, the method the script inserts
ValidatorRejects(file_id, url) == ~Truthy(file_id) /\ ~Truthy(url)

\* AddCollectionFile(file_id=..., url=...) with the class of file m: the
\* field validation first, then the `after` validator if the class has one.
AddCollectionFile(m, file_id, url) ==
    IF \/ ~m.file_id_optional /\ file_id = None
       \/ ~m.url_optional /\ url = None
    THEN "rejected"
    ELSE IF m.has_validator /\ ValidatorRejects(file_id, url)
    THEN "rejected"
    ELSE "accepted"

OneOfInit ==
    /\ NoConcurrentCalls
    /\ model_file \in GeneratedFiles
    /\ request = NoRequest
    /\ api_key = None
    /\ given = NotConstructed
    /\ scope = NoScope
    /\ client = "unconstructed"
    /\ pc = "idle"
    /\ op = "none"
    /\ args = NoArgs
    /\ elapsed = 0
    /\ response = NoObj
    /\ status = NoObj
    /\ result = NoResult
    /\ gen = "none"
    /\ calls = 0
    /\ fetches = 0
    /\ sleeps = 0
    /\ transportExc = NoExc
    /\ firstTerm = NoFirstTerm
    /\ failedAt = NoSnapshot
    /\ stream = <<>>
    /\ pos = 0
    /\ buffer = <<>>
    /\ current_event = None
    /\ current_data_lines = <<>>
    /\ yielded = <<>>
    /\ loaded = {}

\* main(): one run of the script
RunScript ==
    /\ model_file' = IF ~model_file.exists THEN model_file ELSE FixedContent(model_file)
    /\ UNCHANGED <<facadeVars, sseVars, concVars, lifeVars, request>>

\* A request object built from the class of the file as it is now.
BuildRequest ==
    /\ model_file.exists
    /\ \E file_id \in FieldValues, url \in FieldValues :
           request' = [file_id   |-> file_id,
                       url       |-> url,
                       validator |-> model_file.has_validator,
                       outcome   |-> AddCollectionFile(model_file, file_id, url)]
    /\ UNCHANGED <<facadeVars, sseVars, concVars, lifeVars, model_file>>

\* `request = AddCollectionFile(file_id=file_id)` of Collections.add_video
AddVideoBuildsRequest ==
    /\ model_file.exists
    /\ \E file_id \in FieldValues \ {None} :
           request' = [file_id   |-> file_id,
                       url       |-> None,
                       validator |-> model_file.has_validator,
                       outcome   |-> AddCollectionFile(model_file, file_id, None)]
    /\ UNCHANGED <<facadeVars, sseVars, concVars, lifeVars, model_file>>

OneOfNext ==
    \/ RunScript
    \/ BuildRequest
    \/ AddVideoBuildsRequest

OneOfSpec == OneOfInit /\ [][OneOfNext]_vars

\* A field counts as provided when it holds a non-empty string.
ExactlyOneProvided(r) == Truthy(r.file_id) # Truthy(r.url)

\* C30: with the inserted validator a request is accepted exactly when
\* exactly one of file_id and url is provided: neither is rejected, and both
\* are rejected.
C30_ExactlyOneOf ==
    (request.outcome # "none" /\ request.validator) =>
        (request.outcome = "accepted" <=> ExactlyOneProvided(request))

====
